---- MODULE Spec2Model ----
(***************************************************************************)
(* The BibTeX parser of cv/build.py (strict) and of                        *)
(* _scripts/generate_research.py (permissive), with clean_latex and        *)
(* format_authors.  A Python str is a sequence of characters; a character  *)
(* is a TLA+ string.  Cursors (i, j, pos, k) are Python's 0-based indexes.  *)
(***************************************************************************)
EXTENDS Integers, Sequences, FiniteSets, TLC

VARIABLES
    impl,      \* which copy runs: "build" (cv/build.py) or "research"
    path,      \* the path argument of parse_bib
    bib,       \* the entries as written in the file (what read_text reads)
    text,      \* parse_bib: text
    pc,        \* control location
    i,         \* parse_bib: entry cursor
    entries,   \* parse_bib: entries
    spans,     \* parse_bib: the locals (m.start, start, key_end, j) of each appended entry
    cur,       \* parse_bib: entry_type, key, j of the entry whose fields are scanned
    caller,    \* who called parse_bib_fields: "parse_bib" or "top"
    body,      \* parse_bib_fields: body
    pos,       \* parse_bib_fields: field cursor
    fields,    \* parse_bib_fields: fields
    flog,      \* parse_bib_fields: the locals of each field iteration
    arg,       \* clean_latex / format_authors: the argument
    outs,      \* the values returned by the successive calls of clean_latex
    result,    \* the value returned to the caller
    err,       \* the message of the exception raised to the caller
    articles,  \* main: articles
    sections,  \* main: methodology, aid_dev, african_pol, other_articles
    lines      \* main: the lines of the four article sections

vars == <<impl, path, bib, text, pc, i, entries, spans, cur, caller, body, pos,
          fields, flog, arg, outs, result, err, articles, sections, lines>>

(***************************************************************************)
(* Characters and Python's str primitives                                  *)
(***************************************************************************)
BS == "\\"
QT == "\""
NL == "\n"
ENDASH == "U+2013"
NTILDE == "U+00F1"
COMB_TILDE == "U+0303"
COMB_ACUTE == "U+0301"
COMB_UMLAUT == "U+0308"

\* \w of re (the letters, digits and underscore the model's texts use)
WordChars == {"a", "b", "c", "d", "e", "g", "h", "i", "k", "m", "n", "o", "p", "r",
              "s", "t", "u", "x", "y", "f", "A", "B", "O", "P", "R", "T",
              "0", "1", "2", "_", NTILDE}
\* \s of re and the characters str.strip() removes
WsChars == {" ", "\t", NL, "\r"}

NoResult == <<"no value">>
NoErr == <<>>

Min(S) == CHOOSE x \in S : \A y \in S : x <= y

\* s[p] with p 0-based
At(s, p) == s[p + 1]

\* s[a:b]
Slice(s, a, b) ==
    LET hi == IF b > Len(s) THEN Len(s) ELSE b
    IN  IF a >= hi THEN <<>> ELSE SubSeq(s, a + 1, hi)

\* c.lower()
LowerChar(c) ==
    CASE c = "A" -> "a"
      [] c = "B" -> "b"
      [] c = "O" -> "o"
      [] c = "P" -> "p"
      [] c = "R" -> "r"
      [] c = "T" -> "t"
      [] OTHER -> c

\* s.lower()
Lower(s) == [n \in 1..Len(s) |-> LowerChar(s[n])]

\* the end of the longest run of characters of class C that starts at p
RECURSIVE RunEnd(_, _, _)
RunEnd(s, p, C) ==
    IF p < Len(s) /\ At(s, p) \in C THEN RunEnd(s, p + 1, C) ELSE p

\* s.startswith(lit, p)
StartsWith(s, p, lit) ==
    /\ p + Len(lit) <= Len(s)
    /\ \A n \in 1..Len(lit) : s[p + n] = lit[n]

\* s.find(c, p): the first index >= p of character c, or -1
RECURSIVE Find(_, _, _)
Find(s, c, p) ==
    IF p >= Len(s) THEN -1
    ELSE IF At(s, p) = c THEN p
    ELSE Find(s, c, p + 1)

\* s.strip()
RECURSIVE LStrip(_)
LStrip(s) == IF s # <<>> /\ Head(s) \in WsChars THEN LStrip(Tail(s)) ELSE s

RECURSIVE RStrip(_)
RStrip(s) ==
    IF s # <<>> /\ s[Len(s)] \in WsChars THEN RStrip(SubSeq(s, 1, Len(s) - 1)) ELSE s

\* a strip() that forgets the trailing whitespace
StripLeftOnly(s) == LStrip(s)

Strip(s) == RStrip(LStrip(s))

\* s.replace(old, new): leftmost, non-overlapping
RECURSIVE ReplaceFrom(_, _, _, _)
ReplaceFrom(s, p, old, new) ==
    IF p >= Len(s) THEN <<>>
    ELSE IF StartsWith(s, p, old)
         THEN new \o ReplaceFrom(s, p + Len(old), old, new)
         ELSE <<At(s, p)>> \o ReplaceFrom(s, p + 1, old, new)

Replace(s, old, new) == ReplaceFrom(s, 0, old, new)

\* s.count(c)
Count(s, c) == Cardinality({n \in 1..Len(s) : s[n] = c})

(***************************************************************************)
(* clean_latex                                                             *)
(***************************************************************************)
\* re.sub(r"\\cmd\{([^}]*)\}", r"\1", s): cmd includes the backslash and the brace
RECURSIVE SubCmdFrom(_, _, _)
SubCmdFrom(s, p, cmd) ==
    IF p >= Len(s) THEN <<>>
    ELSE LET q == IF StartsWith(s, p, cmd) THEN Find(s, "}", p + Len(cmd)) ELSE -1
         IN  IF q >= 0
             THEN Slice(s, p + Len(cmd), q) \o SubCmdFrom(s, q + 1, cmd)
             ELSE <<At(s, p)>> \o SubCmdFrom(s, p + 1, cmd)

SubCmd(s, cmd) == SubCmdFrom(s, 0, cmd)

TEXTIT == <<BS, "t", "e", "x", "t", "i", "t", "{">>
TEXTBF == <<BS, "t", "e", "x", "t", "b", "f", "{">>
EMPH == <<BS, "e", "m", "p", "h", "{">>
HREF == <<BS, "h", "r", "e", "f", "{">>

\* re.sub(r"\\href\{[^}]*\}\{([^}]*)\}", r"\1", s)
RECURSIVE SubHrefFrom(_, _)
SubHrefFrom(s, p) ==
    IF p >= Len(s) THEN <<>>
    ELSE LET q1 == IF StartsWith(s, p, HREF) THEN Find(s, "}", p + Len(HREF)) ELSE -1
             q2 == IF q1 >= 0 /\ StartsWith(s, q1 + 1, <<"{">>)
                   THEN Find(s, "}", q1 + 2) ELSE -1
         IN  IF q2 >= 0
             THEN Slice(s, q1 + 2, q2) \o SubHrefFrom(s, q2 + 1)
             ELSE <<At(s, p)>> \o SubHrefFrom(s, p + 1)

SubHref(s) == SubHrefFrom(s, 0)

\* re.sub(r"\\M\{([^}])\}", lambda m: m.group(1) + comb, s) for the accent mark M
RECURSIVE SubAccentFrom(_, _, _, _)
SubAccentFrom(s, p, mark, comb) ==
    IF p >= Len(s) THEN <<>>
    ELSE IF /\ StartsWith(s, p, <<BS, mark, "{">>)
            /\ p + 4 < Len(s)
            /\ At(s, p + 3) # "}"
            /\ At(s, p + 4) = "}"
         THEN <<At(s, p + 3), comb>> \o SubAccentFrom(s, p + 5, mark, comb)
         ELSE <<At(s, p)>> \o SubAccentFrom(s, p + 1, mark, comb)

SubAccent(s, mark, comb) == SubAccentFrom(s, 0, mark, comb)

\* s.replace("{", "").replace("}", "")
RemoveBraces(s) == Replace(Replace(s, <<"{">>, <<>>), <<"}">>, <<>>)

\* s.replace("\\~{n}", NTILDE).replace("\\~n", NTILDE)
TildeN(s) == Replace(Replace(s, <<BS, "~", "{", "n", "}">>, <<NTILDE>>),
                     <<BS, "~", "n">>, <<NTILDE>>)

\* clean_latex with the last two lines swapped: strip, then remove the braces
clean_latex_strip_first(s) ==
    LET s1 == SubCmd(s, TEXTIT)
        s2 == SubCmd(s1, TEXTBF)
        s3 == SubCmd(s2, EMPH)
        s4 == SubHref(s3)
        s5 == SubAccent(s4, "~", COMB_TILDE)
        s6 == TildeN(s5)
        s7 == SubAccent(s6, "'", COMB_ACUTE)
        s8 == SubAccent(s7, QT, COMB_UMLAUT)
        s9 == Replace(s8, <<BS, "&">>, <<"&">>)
    IN  RemoveBraces(Strip(s9))

clean_latex(s) ==
    LET s1 == SubCmd(s, TEXTIT)
        s2 == SubCmd(s1, TEXTBF)
        s3 == SubCmd(s2, EMPH)
        s4 == SubHref(s3)
        s5 == SubAccent(s4, "~", COMB_TILDE)
        s6 == TildeN(s5)
        s7 == SubAccent(s6, "'", COMB_ACUTE)
        s8 == SubAccent(s7, QT, COMB_UMLAUT)
        s9 == Replace(s8, <<BS, "&">>, <<"&">>)
        s10 == RemoveBraces(s9)
    IN  Strip(s10)

(***************************************************************************)
(* Bounds and input sets                                                   *)
(***************************************************************************)
MaxPieces == 3

\* every sequence of at most n elements of S
SeqsUpTo(S, n) == UNION {[1..k -> S] : k \in 0..n}

\* the concatenation of a sequence of strings
RECURSIVE Flatten(_)
Flatten(ss) == IF ss = <<>> THEN <<>> ELSE Head(ss) \o Flatten(Tail(ss))

CleanFrags == {TEXTIT, TEXTBF, EMPH, HREF \o <<"u", "}", "{">>,
               <<BS, "~">>, <<BS, "~", "{">>, <<BS, "'", "{">>, <<BS, QT, "{">>,
               <<BS, "&">>, <<"{">>, <<"}">>, <<"n">>, <<" ">>}

CleanInputs == {Flatten(ss) : ss \in SeqsUpTo(CleanFrags, MaxPieces)}

(***************************************************************************)
(* State that a specification does not use                                 *)
(***************************************************************************)
IdleParse ==
    /\ impl = "build" /\ path = "" /\ bib = <<>> /\ text = <<>>
    /\ i = 0 /\ entries = <<>> /\ spans = <<>> /\ cur = <<>> /\ caller = "top"

IdleFields == body = <<>> /\ pos = 0 /\ fields = <<>> /\ flog = <<>>

IdleCalls == arg = <<>> /\ outs = <<>>

IdleMain == articles = <<>> /\ sections = <<>> /\ lines = <<>>

parseVars == <<impl, path, bib, text, i, entries, spans, cur, caller>>
fieldVars == <<body, pos, fields, flog>>
mainVars == <<articles, sections, lines>>

(***************************************************************************)
(* Calls of clean_latex: on a value, then on what it returned               *)
(***************************************************************************)
InitClean ==
    /\ IdleParse /\ IdleFields
    /\ pc = "clean"
    /\ arg \in CleanInputs
    /\ outs = <<>>
    /\ result = NoResult
    /\ err = NoErr
    /\ IdleMain

CleanCall ==
    /\ pc = "clean"
    /\ outs = <<>>
    /\ outs' = <<clean_latex(arg)>>
    /\ result' = clean_latex(arg)
    /\ UNCHANGED <<mainVars, parseVars, fieldVars, pc, arg, err>>

CleanAgain ==
    /\ pc = "clean"
    /\ Len(outs) = 1
    /\ outs' = Append(outs, clean_latex(outs[1]))
    /\ result' = clean_latex(outs[1])
    /\ pc' = "done"
    /\ UNCHANGED <<mainVars, parseVars, fieldVars, arg, err>>

NextClean == CleanCall \/ CleanAgain

SpecClean == InitClean /\ [][NextClean]_vars

(***************************************************************************)
(* clean_latex: properties                                                 *)
(***************************************************************************)
\* s has no backslash and no brace
Plain(s) == \A n \in 1..Len(s) : s[n] \notin {BS, "{", "}"}

\* r is s without its leading and trailing whitespace, every other character in place
IsStripOf(r, s) ==
    \E a \in 1..(Len(s) + 1) : \E b \in 0..Len(s) :
        /\ \A n \in 1..(a - 1) : s[n] \in WsChars
        /\ \A n \in (b + 1)..Len(s) : s[n] \in WsChars
        /\ r = (IF a > b THEN <<>> ELSE SubSeq(s, a, b))
        /\ r # <<>> => (r[1] \notin WsChars /\ r[Len(r)] \notin WsChars)

\* C7: for an argument with no backslash and no brace, clean_latex returns the
\* argument with its leading and trailing whitespace removed and nothing else changed
Thm_C7_PlainIsStrip == (outs # <<>> /\ Plain(arg)) => IsStripOf(outs[1], arg)

Wit_C7_PlainIsStrip ==
    /\ outs # <<>> /\ Plain(arg)
    /\ outs[1] # <<>> /\ Len(outs[1]) < Len(arg)

\* C8: clean_latex turns \~{n} and \~n into the one precomposed character U+00F1
Cex_C8_TildeNPrecomposed ==
    (outs # <<>> /\ arg \in {<<BS, "~", "{", "n", "}">>, <<BS, "~", "n">>})
        => outs[1] = <<NTILDE>>

\* r has markup that clean_latex rewrites: a brace, \& or \~n (the other rules need a brace)
HasMarkup(r) ==
    \E p \in 0..(Len(r) - 1) :
        \/ At(r, p) \in {"{", "}"}
        \/ StartsWith(r, p, <<BS, "&">>)
        \/ StartsWith(r, p, <<BS, "~", "n">>)

\* C9: when the result of one pass has no further markup, a second pass returns it unchanged
Thm_C9_Idempotent == (Len(outs) = 2 /\ ~HasMarkup(outs[1])) => outs[2] = outs[1]

Wit_C9_Idempotent ==
    /\ Len(outs) = 2 /\ ~HasMarkup(outs[1])
    /\ outs[1] # arg /\ outs[1] # <<>> /\ ~Plain(arg)

(***************************************************************************)
(* format_authors                                                          *)
(***************************************************************************)
AUTHOR == <<"a", "u", "t", "h", "o", "r">>
AUTHORDISPLAY == <<"a", "u", "t", "h", "o", "r", "d", "i", "s", "p", "l", "a", "y">>
AND == <<"a", "n", "d">>
OTHERS == <<"o", "t", "h", "e", "r", "s">>

\* a dict as a function; the empty dict is the empty function
EmptyDict == [k \in {} |-> <<>>]

\* d[k] = v
DictPut(d, k, v) == [x \in (DOMAIN d) \cup {k} |-> IF x = k THEN v ELSE d[x]]

\* d.get(k, default)
DictGet(d, k, default) == IF k \in DOMAIN d THEN d[k] ELSE default

\* whether r"\s+and\s+" matches at p (the greedy \s+ runs to the end of the whitespace)
AndMatchAt(s, p) ==
    /\ p < Len(s)
    /\ At(s, p) \in WsChars
    /\ LET w == RunEnd(s, p, WsChars)
       IN  /\ StartsWith(s, w, AND)
           /\ w + 3 < Len(s)
           /\ At(s, w + 3) \in WsChars

\* the end of the match of r"\s+and\s+" that starts at p
AndMatchEnd(s, p) == RunEnd(s, RunEnd(s, p, WsChars) + 3, WsChars)

\* re.split(r"\s+and\s+", s), from the piece that starts at st, searching from p
RECURSIVE ReSplitFrom(_, _, _)
ReSplitFrom(s, st, p) ==
    IF p >= Len(s) THEN <<Slice(s, st, Len(s))>>
    ELSE IF AndMatchAt(s, p)
         THEN <<Slice(s, st, p)>> \o ReSplitFrom(s, AndMatchEnd(s, p), AndMatchEnd(s, p))
         ELSE ReSplitFrom(s, st, p + 1)

ReSplitAnd(s) == ReSplitFrom(s, 0, 0)

\* ", ".join(xs)
RECURSIVE Join(_, _)
Join(sep, xs) ==
    IF xs = <<>> THEN <<>>
    ELSE IF Len(xs) = 1 THEN xs[1]
    ELSE xs[1] \o sep \o Join(sep, Tail(xs))

\* the list `formatted` of format_authors
Formatted(raw) ==
    LET authors == [n \in 1..Len(ReSplitAnd(raw)) |-> Strip(ReSplitAnd(raw)[n])]
    IN  [n \in 1..Len(authors) |-> IF Lower(authors[n]) = OTHERS THEN OTHERS ELSE authors[n]]

\* format_authors with a plain comma before the last author
format_authors_no_and(entry) ==
    IF AUTHORDISPLAY \in DOMAIN entry THEN entry[AUTHORDISPLAY]
    ELSE LET formatted == Formatted(DictGet(entry, AUTHOR, <<>>))
         IN  IF Len(formatted) = 1 THEN formatted[1]
             ELSE IF Len(formatted) = 2
                  THEN formatted[1] \o <<" ">> \o AND \o <<" ">> \o formatted[2]
                  ELSE Join(<<",", " ">>, formatted)

format_authors(entry) ==
    IF AUTHORDISPLAY \in DOMAIN entry THEN entry[AUTHORDISPLAY]
    ELSE LET formatted == Formatted(DictGet(entry, AUTHOR, <<>>))
         IN  IF Len(formatted) = 1 THEN formatted[1]
             ELSE IF Len(formatted) = 2
                  THEN formatted[1] \o <<" ">> \o AND \o <<" ">> \o formatted[2]
                  ELSE Join(<<",", " ">>, SubSeq(formatted, 1, Len(formatted) - 1))
                           \o <<",", " ">> \o AND \o <<" ">> \o formatted[Len(formatted)]

MaxAuthorPieces == 5

AuthorFrags == {<<"x">>, <<"y", ",", " ", "z">>, <<" ">> \o AND \o <<" ">>,
                <<" ", " ">> \o AND \o <<NL>>, <<"O", "t", "h", "e", "r", "s">>, <<" ">>}

AuthorInputs == {Flatten(ss) : ss \in SeqsUpTo(AuthorFrags, MaxAuthorPieces)}

\* the records handed to format_authors: with or without author, with or without authordisplay
AuthorEntries ==
    {EmptyDict, DictPut(EmptyDict, AUTHORDISPLAY, <<"D", " ", "e", "t", " ", "a", "l">>)}
    \cup {DictPut(EmptyDict, AUTHOR, a) : a \in AuthorInputs}
    \cup {DictPut(DictPut(EmptyDict, AUTHOR, a), AUTHORDISPLAY, <<"D">>) :
              a \in {Flatten(ss) : ss \in SeqsUpTo(AuthorFrags, 2)}}

InitAuthors ==
    /\ IdleParse /\ IdleFields
    /\ pc = "format"
    /\ arg \in AuthorEntries
    /\ outs = <<>>
    /\ result = NoResult
    /\ err = NoErr
    /\ IdleMain

FormatAuthors ==
    /\ pc = "format"
    /\ result' = format_authors(arg)
    /\ pc' = "done"
    /\ UNCHANGED <<mainVars, parseVars, fieldVars, arg, outs, err>>

NextAuthors == FormatAuthors

SpecAuthors == InitAuthors /\ [][NextAuthors]_vars

(***************************************************************************)
(* format_authors: properties                                              *)
(***************************************************************************)
\* one author as-is, "A and B" for two, "A, B, and C" for three or more
Oxford(L) ==
    IF Len(L) = 1 THEN L[1]
    ELSE IF Len(L) = 2 THEN L[1] \o <<" ", "a", "n", "d", " ">> \o L[2]
    ELSE Flatten([n \in 1..Len(L) |->
             IF n = 1 THEN L[1]
             ELSE IF n = Len(L) THEN <<",", " ", "a", "n", "d", " ">> \o L[n]
             ELSE <<",", " ">> \o L[n]])

\* s.split(" and "): the pieces between the literal separator
RECURSIVE SplitLiteralFrom(_, _, _, _)
SplitLiteralFrom(s, st, p, sep) ==
    IF p >= Len(s) THEN <<Slice(s, st, Len(s))>>
    ELSE IF StartsWith(s, p, sep)
         THEN <<Slice(s, st, p)>> \o SplitLiteralFrom(s, p + Len(sep), p + Len(sep), sep)
         ELSE SplitLiteralFrom(s, st, p + 1, sep)

\* s without its whitespace, lowercased
Squeeze(s) == Lower(SelectSeq(s, LAMBDA c : c \notin WsChars))

\* L is a list of the authors of raw: trimmed, free of separators, "others" in
\* lower case, and in the order and with the letters of raw
AuthorsOf(L, raw) ==
    /\ Len(L) >= 1
    /\ \A n \in 1..Len(L) :
        /\ L[n] # <<>> => (L[n][1] \notin WsChars /\ L[n][Len(L[n])] \notin WsChars)
        /\ \A p \in 0..Len(L[n]) : ~AndMatchAt(L[n], p)
        /\ Lower(L[n]) = OTHERS => L[n] = OTHERS
    /\ Squeeze(raw) = Squeeze(Join(AND, L))

\* C10 as stated: authordisplay verbatim, otherwise the authors split on the
\* literal separator " and " are kept as they are and joined in Oxford style
Cex_C10_LiteralSplit ==
    pc = "done" =>
        result = IF AUTHORDISPLAY \in DOMAIN arg THEN arg[AUTHORDISPLAY]
                 ELSE Oxford(SplitLiteralFrom(DictGet(arg, AUTHOR, <<>>), 0, 0,
                                              <<" ", "a", "n", "d", " ">>))

\* C10 amended: authordisplay verbatim; otherwise the author field is split on every
\* run whitespace-and-whitespace, each author is trimmed and an author that is
\* "others" in any letter case is written "others"; the authors keep their order
\* and are joined in Oxford style
Thm_C10_FormatAuthors ==
    pc = "done" =>
        IF AUTHORDISPLAY \in DOMAIN arg THEN result = arg[AUTHORDISPLAY]
        ELSE     /\ AuthorsOf(Formatted(DictGet(arg, AUTHOR, <<>>)), DictGet(arg, AUTHOR, <<>>))
                 /\ result = Oxford(Formatted(DictGet(arg, AUTHOR, <<>>)))

Wit_C10_FormatAuthors ==
    /\ pc = "done"
    /\ AUTHORDISPLAY \notin DOMAIN arg
    /\ AUTHOR \in DOMAIN arg
    /\ Len(Formatted(arg[AUTHOR])) = 3
    /\ \E n \in 1..3 : Formatted(arg[AUTHOR])[n] = OTHERS
    /\ \E n \in 1..Len(arg[AUTHOR]) : arg[AUTHOR][n] = NL

(***************************************************************************)
(* parse_bib_fields                                                        *)
(***************************************************************************)
PAGES == <<"p", "a", "g", "e", "s">>

\* the characters the loop `while ... body[val_start] in " \t\n"` skips
SkipChars == {" ", "\t", NL}

\* whether r"(\w+)\s*=\s*" matches at p
FieldMatchAt(b, p) ==
    /\ p < Len(b)
    /\ At(b, p) \in WordChars
    /\ LET e == RunEnd(b, RunEnd(b, p, WordChars), WsChars)
       IN  e < Len(b) /\ At(b, e) = "="

\* pattern.search(body, pos).start(), or -1
RECURSIVE FieldSearch(_, _)
FieldSearch(b, p) ==
    IF p >= Len(b) THEN -1
    ELSE IF FieldMatchAt(b, p) THEN p
    ELSE FieldSearch(b, p + 1)

\* m.end() of the match of r"(\w+)\s*=\s*" that starts at p
FieldMatchEnd(b, p) ==
    RunEnd(b, RunEnd(b, RunEnd(b, p, WordChars), WsChars) + 1, WsChars)

\* a brace scan that does not count the opening braces
RECURSIVE BraceScan_flat(_, _, _)
BraceScan_flat(s, k, depth) ==
    IF k < Len(s) /\ depth > 0
    THEN BraceScan_flat(s, k + 1, IF At(s, k) = "}" THEN depth - 1 ELSE depth)
    ELSE [k |-> k, depth |-> depth]

\* the loop `while k < len(s) and depth > 0` over the braces: k and depth at its exit
RECURSIVE BraceScan(_, _, _)
BraceScan(s, k, depth) ==
    IF k < Len(s) /\ depth > 0
    THEN BraceScan(s, k + 1,
                   IF At(s, k) = "{" THEN depth + 1
                   ELSE IF At(s, k) = "}" THEN depth - 1
                   ELSE depth)
    ELSE [k |-> k, depth |-> depth]

\* one iteration of the loop of parse_bib_fields at cursor p: what it does
\* ("break", "raise" or "store") and, when it stores, its locals
FieldIter(b, p) ==
    LET at == FieldSearch(b, p)
        val_start == RunEnd(b, FieldMatchEnd(b, at), SkipChars)
    IN  IF p >= Len(b) \/ at = -1 THEN [op |-> "break"]
        ELSE IF val_start >= Len(b) THEN [op |-> "break"]
        ELSE IF At(b, val_start) = "{"
             THEN LET k == BraceScan(b, val_start + 1, 1).k
                  IN  [op |-> "store", at |-> at,
                       field_name |-> Lower(Slice(b, at, RunEnd(b, at, WordChars))),
                       val_start |-> val_start,
                       value |-> Slice(b, val_start + 1, k - 1), pos |-> k]
        ELSE IF At(b, val_start) = QT
             THEN LET k == Find(b, QT, val_start + 1)
                  IN  IF k = -1 THEN [op |-> "raise"]
                      ELSE [op |-> "store", at |-> at,
                            field_name |-> Lower(Slice(b, at, RunEnd(b, at, WordChars))),
                            val_start |-> val_start,
                            value |-> Slice(b, val_start + 1, k), pos |-> k + 1]
        ELSE LET f == Find(b, ",", val_start)
                 end == IF f = -1 THEN Len(b) ELSE f
             IN  [op |-> "store", at |-> at,
                  field_name |-> Lower(Slice(b, at, RunEnd(b, at, WordChars))),
                  val_start |-> val_start,
                  value |-> Strip(Slice(b, val_start, end)), pos |-> end]

\* value.replace("--", "–")
EnDash(v) == Replace(v, <<"-", "-">>, <<ENDASH>>)

\* an iteration that stores the cleaned value with no conversion of the pages
StoredValue_unconverted(which, it) == clean_latex(it.value)

\* the value stored by an iteration: research converts the pages inside the loop
StoredValue(which, it) ==
    IF which = "research" /\ it.field_name = PAGES
    THEN EnDash(clean_latex(it.value))
    ELSE clean_latex(it.value)

\* a return that forgets the conversion of the pages
ReturnedFields_unconverted(which, f) == f

\* the dict returned after the loop: build converts the pages after the loop
ReturnedFields(which, f) ==
    IF which = "build" /\ PAGES \in DOMAIN f
    THEN DictPut(f, PAGES, EnDash(f[PAGES]))
    ELSE f

\* the whole of parse_bib_fields(body): whether it raises, and the dict it returns
RECURSIVE FieldsFrom(_, _, _, _)
FieldsFrom(which, b, p, f) ==
    LET it == FieldIter(b, p)
    IN  IF it.op = "break" THEN [raised |-> FALSE, fields |-> ReturnedFields(which, f)]
        ELSE IF it.op = "raise" THEN [raised |-> TRUE, fields |-> EmptyDict]
        ELSE FieldsFrom(which, b, it.pos, DictPut(f, it.field_name, StoredValue(which, it)))

parse_bib_fields(which, b) == FieldsFrom(which, b, 0, EmptyDict)

(***************************************************************************)
(* parse_bib                                                               *)
(***************************************************************************)
TYPE_KEY == <<"_", "t", "y", "p", "e">>
KEY_KEY == <<"_", "k", "e", "y">>

\* whether r"@(\w+)\s*\{" matches at p
EntryMatchAt(t, p) ==
    /\ p < Len(t)
    /\ At(t, p) = "@"
    /\ RunEnd(t, p + 1, WordChars) > p + 1
    /\ LET e == RunEnd(t, RunEnd(t, p + 1, WordChars), WsChars)
       IN  e < Len(t) /\ At(t, e) = "{"

\* i + re.search(r"@(\w+)\s*\{", text[i:]).start(), or -1
RECURSIVE EntrySearch(_, _)
EntrySearch(t, p) ==
    IF p >= Len(t) THEN -1
    ELSE IF EntryMatchAt(t, p) THEN p
    ELSE EntrySearch(t, p + 1)

\* a key that keeps its surrounding whitespace
EntryKey_unstripped(t, start, key_end) == Slice(t, start, key_end)

\* key = text[start:key_end].strip()
EntryKey(t, start, key_end) == Strip(Slice(t, start, key_end))

\* ParseIter with the cursor set to just after the key instead of to j
ParseIter_resume_after_key(t, i0) ==
    LET at == EntrySearch(t, i0)
        wend == RunEnd(t, at + 1, WordChars)
        entry_type == Lower(Slice(t, at + 1, wend))
        start == RunEnd(t, wend, WsChars) + 1
        key_end == Find(t, ",", start)
        key == EntryKey(t, start, key_end)
        sc == BraceScan(t, key_end + 1, 1)
    IN  IF i0 >= Len(t) \/ at = -1 THEN [op |-> "end"]
        ELSE IF key_end = -1
             THEN [op |-> "no_comma", entry_type |-> entry_type,
                   line_num |-> Count(Slice(t, 0, start), NL) + 1]
        ELSE IF sc.depth # 0
             THEN [op |-> "unmatched", entry_type |-> entry_type, key |-> key]
        ELSE [op |-> "entry", at |-> at, entry_type |-> entry_type, start |-> start,
              key_end |-> key_end, key |-> key, j |-> key_end + 1,
              body |-> Slice(t, key_end + 1, sc.k - 1)]

\* ParseIter with the entry closed by the first closing brace after the key
ParseIter_first_close(t, i0) ==
    LET at == EntrySearch(t, i0)
        wend == RunEnd(t, at + 1, WordChars)
        entry_type == Lower(Slice(t, at + 1, wend))
        start == RunEnd(t, wend, WsChars) + 1
        key_end == Find(t, ",", start)
        key == EntryKey(t, start, key_end)
        sc == BraceScan_flat(t, key_end + 1, 1)
    IN  IF i0 >= Len(t) \/ at = -1 THEN [op |-> "end"]
        ELSE IF key_end = -1
             THEN [op |-> "no_comma", entry_type |-> entry_type,
                   line_num |-> Count(Slice(t, 0, start), NL) + 1]
        ELSE IF sc.depth # 0
             THEN [op |-> "unmatched", entry_type |-> entry_type, key |-> key]
        ELSE [op |-> "entry", at |-> at, entry_type |-> entry_type, start |-> start,
              key_end |-> key_end, key |-> key, j |-> sc.k,
              body |-> Slice(t, key_end + 1, sc.k - 1)]

\* one iteration of the loop of parse_bib at cursor i0, up to the call of
\* parse_bib_fields: "end" (loop over), "no_comma", "unmatched", or "entry" with the locals
ParseIter(t, i0) ==
    LET at == EntrySearch(t, i0)
        wend == RunEnd(t, at + 1, WordChars)
        entry_type == Lower(Slice(t, at + 1, wend))
        start == RunEnd(t, wend, WsChars) + 1
        key_end == Find(t, ",", start)
        key == EntryKey(t, start, key_end)
        sc == BraceScan(t, key_end + 1, 1)
    IN  IF i0 >= Len(t) \/ at = -1 THEN [op |-> "end"]
        ELSE IF key_end = -1
             THEN [op |-> "no_comma", entry_type |-> entry_type,
                   line_num |-> Count(Slice(t, 0, start), NL) + 1]
        ELSE IF sc.depth # 0
             THEN [op |-> "unmatched", entry_type |-> entry_type, key |-> key]
        ELSE [op |-> "entry", at |-> at, entry_type |-> entry_type, start |-> start,
              key_end |-> key_end, key |-> key, j |-> sc.k,
              body |-> Slice(t, key_end + 1, sc.k - 1)]

(***************************************************************************)
(* The files parse_bib reads and the bodies parse_bib_fields is called on  *)
(***************************************************************************)
MaxEntries == 2

\* how an entry is written around its body: @type gap { key [,] body [}] after
EntryShapes ==
    {[type |-> <<"a">>, gap |-> <<>>, key |-> <<"k">>,
      comma |-> TRUE, close |-> TRUE, after |-> <<>>],
     [type |-> <<"A", "b">>, gap |-> <<" ">>, key |-> <<" ", "k", "2", " ">>,
      comma |-> TRUE, close |-> TRUE, after |-> <<NL>>],
     [type |-> <<"a">>, gap |-> <<>>, key |-> <<"k">>,
      comma |-> FALSE, close |-> TRUE, after |-> <<>>],
     [type |-> <<"a">>, gap |-> <<>>, key |-> <<"k">>,
      comma |-> TRUE, close |-> FALSE, after |-> <<>>]}

EntryBodies ==
    {<<>>,
     <<"t", "=", "{", "x", "}">>,
     <<"t", "=", QT, "x", QT>>,
     <<"t", "=", QT, "x">>,
     <<"t", "=", "{", "@", "b", "{", "k", ",", "}", "}">>,
     <<"p", "a", "g", "e", "s", "=", "{", "1", "-", "-", "2", "}", ",", NL, "t", "=", "1">>,
     <<"t", "=", "{">>}

BibEntries == {[shape |-> sh, body |-> b] : sh \in EntryShapes, b \in EntryBodies}

\* the text of one entry
Render(d) ==
    <<"@">> \o d.shape.type \o d.shape.gap \o <<"{">> \o d.shape.key
        \o (IF d.shape.comma THEN <<",">> ELSE <<>>)
        \o d.body
        \o (IF d.shape.close THEN <<"}">> ELSE <<>>)
        \o d.shape.after

\* Path(path).read_text()
ReadText(ds) == Flatten([n \in 1..Len(ds) |-> Render(ds[n])])

FieldFrags ==
    {<<"t", "=">>, <<"P", "a", "g", "e", "s", " ", "=", " ", "{">>,
     <<"{">>, <<"}">>, <<QT>>, <<",">>, <<"x">>, <<"1", "-", "-", "2">>,
     <<"t", "=", "{", "x", "}", ",">>,
     <<"p", "a", "g", "e", "s", "=", QT, "3", "-", "-", "-", "4", QT>>,
     <<"p", "a", "g", "e", "s", "=", "5", "-", "-", "6", ",">>,
     <<"u", "=", "{", BS, "&", "-", "-", "}">>}

FieldBodies == {Flatten(ss) : ss \in SeqsUpTo(FieldFrags, MaxPieces)}

(***************************************************************************)
(* parse_bib and parse_bib_fields, one loop iteration per step              *)
(***************************************************************************)
InitBib ==
    /\ impl \in {"build", "research"}
    /\ path = "publications.bib"
    /\ bib \in SeqsUpTo(BibEntries, MaxEntries)
    /\ text = ReadText(bib)
    /\ pc = "scan"
    /\ i = 0 /\ entries = <<>> /\ spans = <<>> /\ cur = <<>>
    /\ caller = "parse_bib"
    /\ IdleFields /\ IdleCalls
    /\ result = NoResult
    /\ err = NoErr
    /\ IdleMain

InitFields ==
    /\ impl \in {"build", "research"}
    /\ path = "" /\ bib = <<>> /\ text = <<>>
    /\ i = 0 /\ entries = <<>> /\ spans = <<>> /\ cur = <<>>
    /\ caller = "top"
    /\ pc = "fields"
    /\ body \in FieldBodies
    /\ pos = 0 /\ fields = EmptyDict /\ flog = <<>>
    /\ IdleCalls
    /\ result = NoResult
    /\ err = NoErr
    /\ IdleMain

\* the loop of parse_bib ends (i >= len(text) or no match): return entries
ParseReturn ==
    /\ pc = "scan"
    /\ ParseIter(text, i).op = "end"
    /\ result' = entries
    /\ pc' = "done"
    /\ UNCHANGED <<mainVars, parseVars, fieldVars, arg, outs, err>>

\* text.index(",", start) fails: build raises, research breaks and returns entries
ParseNoComma ==
    /\ pc = "scan"
    /\ ParseIter(text, i).op = "no_comma"
    /\ IF impl = "build"
       THEN /\ err' = <<path, "malformed entry near line", ParseIter(text, i).line_num,
                        "expected a comma after", ParseIter(text, i).entry_type>>
            /\ pc' = "raised"
            /\ UNCHANGED result
       ELSE /\ result' = entries
            /\ pc' = "done"
            /\ UNCHANGED err
    /\ UNCHANGED <<mainVars, parseVars, fieldVars, arg, outs>>

\* ParseUnmatched with the permissive break in both copies
ParseUnmatched_break ==
    /\ pc = "scan"
    /\ ParseIter(text, i).op = "unmatched"
    /\ result' = entries
    /\ pc' = "done"
    /\ UNCHANGED <<mainVars, parseVars, fieldVars, arg, outs, err>>

\* depth != 0 after the brace scan: build raises, research breaks and returns entries
ParseUnmatched ==
    /\ pc = "scan"
    /\ ParseIter(text, i).op = "unmatched"
    /\ IF impl = "build"
       THEN /\ err' = <<path, "unmatched braces in entry",
                        ParseIter(text, i).entry_type, ParseIter(text, i).key>>
            /\ pc' = "raised"
            /\ UNCHANGED result
       ELSE /\ result' = entries
            /\ pc' = "done"
            /\ UNCHANGED err
    /\ UNCHANGED <<mainVars, parseVars, fieldVars, arg, outs>>

\* an entry with its key and matching brace: call parse_bib_fields(body)
ParseEntry ==
    /\ pc = "scan"
    /\ ParseIter(text, i).op = "entry"
    /\ cur' = ParseIter(text, i)
    /\ body' = ParseIter(text, i).body
    /\ pos' = 0
    /\ fields' = EmptyDict
    /\ flog' = <<>>
    /\ pc' = "fields"
    /\ UNCHANGED <<mainVars, impl, path, bib, text, i, entries, spans, caller, arg, outs, result, err>>

\* FieldStep with the cursor set to the start of the match instead of after the value
FieldStep_resume_at_match ==
    /\ pc = "fields"
    /\ FieldIter(body, pos).op = "store"
    /\ fields' = DictPut(fields, FieldIter(body, pos).field_name,
                         StoredValue(impl, FieldIter(body, pos)))
    /\ pos' = FieldIter(body, pos).at
    /\ flog' = Append(flog, FieldIter(body, pos))
    /\ UNCHANGED <<mainVars, parseVars, body, pc, arg, outs, result, err>>

\* one iteration of the loop of parse_bib_fields that stores a field
FieldStep ==
    /\ pc = "fields"
    /\ FieldIter(body, pos).op = "store"
    /\ fields' = DictPut(fields, FieldIter(body, pos).field_name,
                         StoredValue(impl, FieldIter(body, pos)))
    /\ pos' = FieldIter(body, pos).pos
    /\ flog' = Append(flog, FieldIter(body, pos))
    /\ UNCHANGED <<mainVars, parseVars, body, pc, arg, outs, result, err>>

\* body.index('"', ...) fails: ValueError, which build's parse_bib wraps with the
\* path and which nothing in research catches
FieldRaise ==
    /\ pc = "fields"
    /\ FieldIter(body, pos).op = "raise"
    /\ err' = IF caller = "parse_bib" /\ impl = "build"
              THEN <<path, "error parsing fields of", cur.entry_type, cur.key,
                     "substring not found">>
              ELSE <<"substring not found">>
    /\ pc' = "raised"
    /\ UNCHANGED <<mainVars, parseVars, fieldVars, arg, outs, result>>

\* the loop of parse_bib_fields ends: return fields; in parse_bib the entry gets
\* its _type and _key, is appended, and the cursor moves to j
FieldsReturn ==
    /\ pc = "fields"
    /\ FieldIter(body, pos).op = "break"
    /\ fields' = ReturnedFields(impl, fields)
    /\ IF caller = "parse_bib"
       THEN /\ entries' = Append(entries,
                    DictPut(DictPut(fields', TYPE_KEY, cur.entry_type), KEY_KEY, cur.key))
            /\ spans' = Append(spans, [at |-> cur.at, start |-> cur.start,
                                       key_end |-> cur.key_end, j |-> cur.j])
            /\ i' = cur.j
            /\ pc' = "scan"
            /\ UNCHANGED result
       ELSE /\ result' = fields'
            /\ pc' = "done"
            /\ UNCHANGED <<entries, spans, i>>
    /\ UNCHANGED <<mainVars, impl, path, bib, text, cur, caller, body, pos, flog, arg, outs, err>>

NextFields == FieldStep \/ FieldRaise \/ FieldsReturn

SpecFields == InitFields /\ [][NextFields]_vars

NextBib ==
    \/ ParseReturn \/ ParseNoComma \/ ParseUnmatched \/ ParseEntry
    \/ FieldStep \/ FieldRaise \/ FieldsReturn

SpecBib == InitBib /\ [][NextBib]_vars

\* the whole of parse_bib on a text: whether it raises, and the list it returns
RECURSIVE ParseFrom(_, _, _, _)
ParseFrom(which, t, i0, es) ==
    LET it == ParseIter(t, i0)
    IN  IF it.op = "end" THEN [raised |-> FALSE, entries |-> es]
        ELSE IF it.op \in {"no_comma", "unmatched"}
             THEN [raised |-> which = "build", entries |-> IF which = "build" THEN <<>> ELSE es]
        ELSE LET f == parse_bib_fields(which, it.body)
             IN  IF f.raised THEN [raised |-> TRUE, entries |-> <<>>]
                 ELSE ParseFrom(which, t, it.j,
                          Append(es, DictPut(DictPut(f.fields, TYPE_KEY, it.entry_type),
                                             KEY_KEY, it.key)))

parse_bib(which, t) == ParseFrom(which, t, 0, <<>>)

(***************************************************************************)
(* parse_bib: properties                                                   *)
(***************************************************************************)
\* the number of characters c among the first n of s
CountIn(s, n, c) == Cardinality({m \in 1..n : s[m] = c})

\* the braces of s are well nested
Nested(s) ==
    /\ \A n \in 0..Len(s) : CountIn(s, n, "{") >= CountIn(s, n, "}")
    /\ CountIn(s, Len(s), "{") = CountIn(s, Len(s), "}")

\* position p of b (1-based) comes after an "=" with only whitespace between
AfterEquals(b, p) ==
    \E e \in 1..(p - 1) : b[e] = "=" /\ \A m \in (e + 1)..(p - 1) : b[m] \in WsChars

\* every quote of b that follows an "=" has a later quote in b
QuotesClosed(b) ==
    \A p \in 1..Len(b) :
        (b[p] = QT /\ AfterEquals(b, p)) => \E q \in (p + 1)..Len(b) : b[q] = QT

\* a well-formed entry @type{key, ...}: a comma after the key, braces that balance
WellFormedEntry(d) ==
    /\ d.shape.type # <<>>
    /\ \A n \in 1..Len(d.shape.type) : d.shape.type[n] \in WordChars
    /\ \A n \in 1..Len(d.shape.gap) : d.shape.gap[n] \in WsChars
    /\ d.shape.comma
    /\ \A n \in 1..Len(d.shape.key) : d.shape.key[n] \notin {",", "{", "}"}
    /\ Nested(d.body)
    /\ d.shape.close
    /\ \A n \in 1..Len(d.shape.after) : d.shape.after[n] \in WsChars

\* r is s with its upper-case letters made lower-case
IsLowerOf(r, s) ==
    /\ Len(r) = Len(s)
    /\ \A n \in 1..Len(s) :
        r[n] = (CASE s[n] = "A" -> "a" [] s[n] = "B" -> "b" [] s[n] = "O" -> "o"
                  [] s[n] = "P" -> "p" [] s[n] = "R" -> "r" [] s[n] = "T" -> "t"
                  [] OTHER -> s[n])

\* the list rs has one record per entry of ds, in order, with its type and key
OnePerEntry(rs, ds) ==
    /\ Len(rs) = Len(ds)
    /\ \A n \in 1..Len(ds) :
        /\ IsLowerOf(rs[n][TYPE_KEY], ds[n].shape.type)
        /\ IsStripOf(rs[n][KEY_KEY], ds[n].shape.key)

\* C1 as stated: on a text of N well-formed entries parse_bib returns N records,
\* one per entry and in order
Cex_C1_OnePerEntry ==
    (pc \in {"done", "raised"} /\ \A n \in 1..Len(bib) : WellFormedEntry(bib[n]))
        => (pc = "done" /\ OnePerEntry(result, bib))

\* C1 amended: on a text of N well-formed entries in whose bodies every quote that
\* follows an "=" has a later quote, parse_bib returns N records, one per entry
\* and in order; entry-like text inside a body gives no record
Thm_C1_OnePerEntry ==
    (/\ pc \in {"done", "raised"}
     /\ \A n \in 1..Len(bib) : WellFormedEntry(bib[n]) /\ QuotesClosed(bib[n].body))
        => (pc = "done" /\ OnePerEntry(result, bib))

Wit_C1_OnePerEntry ==
    /\ pc = "done"
    /\ Len(bib) = 2 /\ Len(result) = 2
    /\ \A n \in 1..Len(bib) : WellFormedEntry(bib[n]) /\ QuotesClosed(bib[n].body)
    /\ \E n \in 1..Len(bib[1].body) : bib[1].body[n] = "@"
    /\ bib[1].shape.type # bib[2].shape.type

\* C2: every record has a non-empty _type, the lowercased run of word characters
\* after its "@", and a _key that is the trimmed text between its opening brace
\* and the first comma after it; the key has no comma and lies inside the entry,
\* which ends at its closing brace before the next entry starts
Thm_C2_TypeAndKey ==
    /\ Len(spans) = Len(entries)
    /\ \A n \in 1..Len(entries) :
        LET sp == spans[n]
            e == entries[n]
        IN  /\ At(text, sp.at) = "@"
            /\ e[TYPE_KEY] # <<>>
            /\ \E w \in (sp.at + 2)..(sp.start - 1) :
                /\ IsLowerOf(e[TYPE_KEY], Slice(text, sp.at + 1, w))
                /\ \A q \in (sp.at + 1)..(w - 1) : At(text, q) \in WordChars
                /\ At(text, w) \notin WordChars
                /\ \A q \in w..(sp.start - 2) : At(text, q) \in WsChars
            /\ At(text, sp.start - 1) = "{"
            /\ sp.start <= sp.key_end
            /\ At(text, sp.key_end) = ","
            /\ \A q \in sp.start..(sp.key_end - 1) : At(text, q) # ","
            /\ IsStripOf(e[KEY_KEY], Slice(text, sp.start, sp.key_end))
            /\ \A q \in 1..Len(e[KEY_KEY]) : e[KEY_KEY][q] # ","
            /\ sp.key_end < sp.j - 1
            /\ sp.j <= Len(text)
            /\ At(text, sp.j - 1) = "}"
            /\ n > 1 => spans[n - 1].j <= sp.at

Wit_C2_TypeAndKey ==
    /\ pc = "done"
    /\ Len(result) = 2
    /\ \E n \in 1..2 : result[n][TYPE_KEY] = <<"a", "b">> /\ result[n][KEY_KEY] = <<"k", "2">>
    /\ \E n \in 1..2 : Len(result[n][KEY_KEY]) > 2

\* the first comma at or after p exists
HasComma(t, p) == \E q \in p..(Len(t) - 1) : At(t, q) = ","

\* some closing brace after the comma at c closes the entry: the text between is well nested
HasClose(t, c) == \E q \in (c + 1)..(Len(t) - 1) : At(t, q) = "}" /\ Nested(Slice(t, c + 1, q))

\* the entry found from cursor i0 has no comma after its opening brace
NoCommaAt(t, i0) ==
    /\ i0 < Len(t)
    /\ EntrySearch(t, i0) # -1
    /\ ~HasComma(t, RunEnd(t, RunEnd(t, EntrySearch(t, i0) + 1, WordChars), WsChars) + 1)

\* the braces of the entry found from cursor i0 never return to depth 0
NeverClosedAt(t, i0) ==
    /\ i0 < Len(t)
    /\ EntrySearch(t, i0) # -1
    /\ LET start == RunEnd(t, RunEnd(t, EntrySearch(t, i0) + 1, WordChars), WsChars) + 1
       IN  /\ HasComma(t, start)
           /\ ~HasClose(t, Min({q \in start..(Len(t) - 1) : At(t, q) = ","}))

\* the field found from cursor p has a value that opens with a quote and never closes
QuoteOpenAt(b, p) ==
    /\ p < Len(b)
    /\ FieldSearch(b, p) # -1
    /\ LET v == FieldMatchEnd(b, FieldSearch(b, p))
       IN  /\ v < Len(b)
           /\ At(b, v) = QT
           /\ \A q \in (v + 1)..(Len(b) - 1) : At(b, q) # QT

\* parse_bib is at a malformed-input condition
Malformed ==
    \/ pc = "scan" /\ (NoCommaAt(text, i) \/ NeverClosedAt(text, i))
    \/ pc = "fields" /\ caller = "parse_bib" /\ QuoteOpenAt(body, pos)

\* C4: in the strict parser every malformed-input condition ends the call with an
\* error that starts with the path, and no record is returned, whatever was parsed
Thm_C4_StrictFails ==
    [][(impl = "build" /\ Malformed)
          => (pc' = "raised" /\ err' # NoErr /\ err'[1] = path /\ result' = NoResult)]_vars

Wit_C4_StrictFails ==
    /\ impl = "build"
    /\ pc = "raised"
    /\ Len(entries) >= 1
    /\ result = NoResult
    /\ err[1] = path

\* C5: the permissive parser never raises: at every malformed-input condition it
\* stops and returns the records completed so far
Cex_C5_PermissiveNeverRaises ==
    impl = "research" =>
        /\ pc # "raised"
        /\ pc = "done" => result = entries

(***************************************************************************)
(* parse_bib_fields: properties                                            *)
(***************************************************************************)
\* v with every "--", left to right, replaced by one en-dash
RECURSIVE DashSpec(_)
DashSpec(v) ==
    IF Len(v) >= 2 /\ v[1] = "-" /\ v[2] = "-"
    THEN <<ENDASH>> \o DashSpec(SubSeq(v, 3, Len(v)))
    ELSE IF v = <<>> THEN <<>>
    ELSE <<v[1]>> \o DashSpec(Tail(v))

\* the raw value of the last iteration that stored field f
LastRaw(f) ==
    flog[CHOOSE n \in 1..Len(flog) :
            /\ flog[n].field_name = f
            /\ \A m \in (n + 1)..Len(flog) : flog[m].field_name # f].value

\* the first index >= p of character c in b, or Len(b)
FirstOrEnd(b, c, p) ==
    Min({q \in p..(Len(b) - 1) : At(b, q) = c} \cup {Len(b)})

\* iteration n of the field loop read a field name found at or after the end of
\* the previous value and took the value its delimiter selects
FieldRead(n) ==
    LET r == flog[n]
        prev == IF n = 1 THEN 0 ELSE flog[n - 1].pos
        v == r.val_start
    IN  /\ prev <= r.at
        /\ \A p \in prev..(r.at - 1) : ~FieldMatchAt(body, p)
        /\ \E w \in (r.at + 1)..(v - 1) : \E e \in w..(v - 1) :
            /\ \A q \in r.at..(w - 1) : At(body, q) \in WordChars
            /\ IsLowerOf(r.field_name, Slice(body, r.at, w))
            /\ \A q \in w..(e - 1) : At(body, q) \in WsChars
            /\ At(body, e) = "="
            /\ \A q \in (e + 1)..(v - 1) : At(body, q) \in WsChars
        /\ v < Len(body)
        /\ At(body, v) \notin WsChars
        /\ r.pos >= v /\ r.pos <= Len(body)
        /\ At(body, v) \in {"{", QT} => r.pos > v
        /\ At(body, v) = "{" =>
              \A c \in (v + 1)..(Len(body) - 1) :
                  (At(body, c) = "}" /\ Nested(Slice(body, v + 1, c)))
                      => (r.value = Slice(body, v + 1, c) /\ r.pos = c + 1)
        /\ At(body, v) = QT =>
              /\ FirstOrEnd(body, QT, v + 1) < Len(body)
              /\ r.value = Slice(body, v + 1, FirstOrEnd(body, QT, v + 1))
              /\ r.pos = FirstOrEnd(body, QT, v + 1) + 1
        /\ At(body, v) \notin {"{", QT} =>
              /\ clean_latex(r.value) = clean_latex(Slice(body, v, FirstOrEnd(body, ",", v)))
              /\ r.pos = FirstOrEnd(body, ",", v)

\* C3: each field name (lowercased) is mapped to the cleaned value its delimiter
\* selects: up to the matching brace for "{", up to the next quote for a quote,
\* else up to the next comma or the end; the scan resumes after the value, so no
\* field is read inside a value
Thm_C3_FieldValues ==
    /\ \A n \in 1..Len(flog) : FieldRead(n)
    /\ pos = (IF flog = <<>> THEN 0 ELSE flog[Len(flog)].pos)
    /\ DOMAIN fields = {flog[n].field_name : n \in 1..Len(flog)}
    /\ \A f \in DOMAIN fields :
        IF f = PAGES
        THEN fields[f] \in {clean_latex(LastRaw(f)), DashSpec(clean_latex(LastRaw(f)))}
        ELSE fields[f] = clean_latex(LastRaw(f))

Wit_C3_FieldValues ==
    /\ pc = "done"
    /\ Len(flog) = 1
    /\ At(body, flog[1].val_start) = "{"
    /\ \E p \in (flog[1].val_start + 1)..(flog[1].pos - 1) : FieldMatchAt(body, p)
    /\ At(body, flog[1].pos - 1) = "}"
    /\ Nested(flog[1].value)
    /\ \E q \in 1..Len(flog[1].value) : flog[1].value[q] = "{"

\* C6: in the dict parse_bib_fields returns, pages is the cleaned value with every
\* "--" replaced by one en-dash and has no "--" left; any other field is exactly
\* clean_latex of its raw value
Thm_C6_PagesEnDash ==
    (pc = "done" /\ caller = "top") =>
        /\ \A f \in DOMAIN result :
            result[f] = IF f = PAGES THEN DashSpec(clean_latex(LastRaw(f)))
                        ELSE clean_latex(LastRaw(f))
        /\ PAGES \in DOMAIN result =>
              \A q \in 1..(Len(result[PAGES]) - 1) :
                  ~(result[PAGES][q] = "-" /\ result[PAGES][q + 1] = "-")

Wit_C6_PagesEnDash ==
    /\ pc = "done" /\ caller = "top"
    /\ impl = "build"
    /\ PAGES \in DOMAIN result
    /\ \E q \in 1..Len(result[PAGES]) : result[PAGES][q] = ENDASH
    /\ \E f \in DOMAIN result :
        /\ f # PAGES
        /\ \E q \in 1..(Len(result[f]) - 1) : result[f][q] = "-" /\ result[f][q + 1] = "-"

(***************************************************************************)
(* Termination of parse_bib and parse_bib_fields                           *)
(***************************************************************************)
\* calls of parse_bib on a file and calls of parse_bib_fields on a body
SpecParse == (InitBib \/ InitFields) /\ [][NextBib]_vars

\* the call has returned or raised
Terminated == pc \in {"done", "raised"}

\* a step ends the call, or appends an entry and moves i forward, or enters the
\* field loop of the entry found at i, or stores a field and moves pos forward;
\* no cursor moves back
CursorsAdvance ==
    /\ ~Terminated
    /\ \/ Terminated' /\ i' = i /\ pos' = pos
       \/ pc = "fields" /\ pc' = "scan" /\ Len(entries') = Len(entries) + 1 /\ i' > i
       \/ pc = "scan" /\ pc' = "fields" /\ i' = i /\ pos' = 0
       \/ pc = "fields" /\ pc' = "fields" /\ Len(flog') = Len(flog) + 1
              /\ i' = i /\ body' = body /\ pos' > pos

\* the cursors stay inside the text, and count at least the iterations made
CursorsBounded ==
    /\ 0 <= i /\ i <= Len(text)
    /\ 0 <= pos /\ pos <= Len(body)
    /\ Len(entries) <= i
    /\ Len(flog) <= pos

\* a call that has not ended is at an iteration that ends the loop, raises or advances
CanStep ==
    \/ pc = "scan" /\ ParseIter(text, i).op \in {"end", "no_comma", "unmatched", "entry"}
    \/ pc = "fields" /\ FieldIter(body, pos).op \in {"store", "raise", "break"}

\* C11: every call of parse_bib and of parse_bib_fields ends: each loop iteration
\* moves its cursor (i, pos) strictly forward and never back, inside the text,
\* until the end of the text, a failed search or an error ends the scan
Thm_C11_Terminates ==
    /\ [][CursorsAdvance]_vars
    /\ [](CursorsBounded /\ (~Terminated => CanStep))

Wit_C11_Terminates ==
    /\ pc = "done"
    /\ caller = "parse_bib"
    /\ Len(entries) = 2
    /\ i = Len(text)
    /\ Len(flog) = 2
    /\ pos = Len(body)

(***************************************************************************)
(* The two copies of the parser on the same file                           *)
(***************************************************************************)
\* pieces of entry bodies: the field pages given once or several times, values in
\* braces and in quotes, an opening brace with no closing one, a closing brace
CopyFrags ==
    {<<"p", "a", "g", "e", "s", "=", "{", "1", "-", "-", "2", "}", ",">>,
     <<"P", "a", "g", "e", "s", " ", "=", " ", QT, "3", "-", "-", "-", "4", QT, ",">>,
     <<"p", "a", "g", "e", "s", "=", "5", "-", "6", ",", NL>>,
     <<"t", "=", "{", "{", "x", "}", "-", "-", "}", ",">>,
     <<"t", "=", QT, "x">>,
     <<"u", "=", "{">>,
     <<"}">>}

CopyBodies == {Flatten(ss) : ss \in SeqsUpTo(CopyFrags, MaxPieces)}

\* a file of one entry, read by either copy
InitCopies ==
    /\ impl \in {"build", "research"}
    /\ path = "publications.bib"
    /\ bib \in {<<[shape |-> sh, body |-> b]>> : sh \in EntryShapes, b \in CopyBodies}
    /\ text = ReadText(bib)
    /\ pc = "scan"
    /\ i = 0 /\ entries = <<>> /\ spans = <<>> /\ cur = <<>>
    /\ caller = "parse_bib"
    /\ IdleFields /\ IdleCalls
    /\ result = NoResult
    /\ err = NoErr
    /\ IdleMain

SpecCopies == InitCopies /\ [][NextBib]_vars

\* C12: when build.py's parse_bib returns a list for a text, generate_research.py's
\* parse_bib returns for the same text, without raising, the same list: the same
\* records in the same order, with the same _type, _key and fields, the value of
\* a repeated pages field included
Thm_C12_CopiesAgree ==
    pc = "done" /\ impl = "build" =>
        /\ ~parse_bib("research", text).raised
        /\ parse_bib("research", text).entries = result

\* build.py returned an entry whose pages field was given twice with a double hyphen
Wit_C12_CopiesAgree ==
    /\ pc = "done" /\ impl = "build"
    /\ Len(result) = 1
    /\ Len(flog) = 2
    /\ flog[1].field_name = PAGES /\ flog[2].field_name = PAGES
    /\ Count(flog[1].value, "-") >= 2
    /\ Count(flog[2].value, "-") >= 2
    /\ Count(result[1][PAGES], ENDASH) = 1

(***************************************************************************)
(* The bodies parse_bib hands to parse_bib_fields                           *)
(***************************************************************************)
\* the opening braces minus the closing braces of s[a:b]
DepthOf(s, a, b) ==
    Cardinality({q \in a..(b - 1) : At(s, q) = "{"})
        - Cardinality({q \in a..(b - 1) : At(s, q) = "}"})

\* field iteration n read a value in braces: its scan ended inside the body at the
\* closing brace that matches the opening one, with depth 0
BraceValueClosed(n) ==
    LET r == flog[n]
    IN  At(body, r.val_start) = "{" =>
            /\ r.pos <= Len(body)
            /\ At(body, r.pos - 1) = "}"
            /\ DepthOf(body, r.val_start, r.pos) = 0
            /\ \A q \in (r.val_start + 1)..(r.pos - 1) : DepthOf(body, r.val_start, q) > 0
            /\ r.value = Slice(body, r.val_start + 1, r.pos - 1)

\* C14: every body parse_bib hands to parse_bib_fields has well nested braces, so
\* the scan of every value in braces ends with depth 0 at its matching closing
\* brace inside the body; no value in braces is left unterminated
Thm_C14_BodiesNested ==
    caller = "parse_bib" =>
        /\ Nested(body)
        /\ \A n \in 1..Len(flog) : BraceValueClosed(n)

\* the file has an opening brace after the entry's own closing brace, the body handed
\* over ends before it, and a value with nested braces was read from the body
Wit_C14_BodiesNested ==
    /\ caller = "parse_bib"
    /\ pc = "done"
    /\ Len(entries) = 1
    /\ ~Nested(bib[1].body)
    /\ Len(body) < Len(bib[1].body)
    /\ \E n \in 1..Len(flog) :
          /\ At(body, flog[n].val_start) = "{"
          /\ \E q \in 1..Len(flog[n].value) : flog[n].value[q] = "{"

(***************************************************************************)
(* generate_research.main: the articles, sorted and put into sections       *)
(***************************************************************************)
MaxArticles == 3

YEAR == <<"y", "e", "a", "r">>
STATUS == <<"s", "t", "a", "t", "u", "s">>
KEYWORDS == <<"k", "e", "y", "w", "o", "r", "d", "s">>
ARTICLE == <<"a", "r", "t", "i", "c", "l", "e">>
INCOLLECTION == <<"i", "n", "c", "o", "l", "l", "e", "c", "t", "i", "o", "n">>
ACCEPTED == <<"a", "c", "c", "e", "p", "t", "e", "d">>
WIP == <<"w", "i", "p">>
KW_METHODOLOGY == <<"m", "e", "t", "h", "o", "d", "o", "l", "o", "g", "y">>
KW_AID_DEV == <<"a", "i", "d", "-", "d", "e", "v">>
KW_AFRICAN_POLITICS ==
    <<"a", "f", "r", "i", "c", "a", "n", "-", "p", "o", "l", "i", "t", "i", "c", "s">>
KW_OTHER == <<"o", "t", "h", "e", "r">>

\* the year a missing or empty year field counts as
MissingYear == 9999

Digits == {"0", "1", "2", "3", "4", "5", "6", "7", "8", "9"}

DigitVal(c) ==
    CASE c = "0" -> 0 [] c = "1" -> 1 [] c = "2" -> 2 [] c = "3" -> 3 [] c = "4" -> 4
      [] c = "5" -> 5 [] c = "6" -> 6 [] c = "7" -> 7 [] c = "8" -> 8 [] c = "9" -> 9

\* the digits of a decimal literal, after the surrounding whitespace and the sign
IntDigits(s) ==
    LET t == Strip(s)
    IN  IF t # <<>> /\ Head(t) \in {"+", "-"} THEN Tail(t) ELSE t

\* whether int(s) returns (otherwise it raises ValueError)
IntOk(s) == IntDigits(s) # <<>> /\ \A n \in 1..Len(IntDigits(s)) : IntDigits(s)[n] \in Digits

RECURSIVE DigitsVal(_, _)
DigitsVal(ds, acc) ==
    IF ds = <<>> THEN acc ELSE DigitsVal(Tail(ds), 10 * acc + DigitVal(Head(ds)))

\* int(s) where it returns
int(s) ==
    IF Strip(s) # <<>> /\ Head(Strip(s)) = "-"
    THEN 0 - DigitsVal(IntDigits(s), 0)
    ELSE DigitsVal(IntDigits(s), 0)

\* e.get("year") is truthy
HasYear(e) == YEAR \in DOMAIN e /\ e[YEAR] # <<>>

\* whether article_sort_key(e) returns
SortKeyOk(e) == HasYear(e) => IntOk(e[YEAR])

\* article_sort_key(e): minus the year, the status is not read
article_sort_key(e) == IF HasYear(e) THEN 0 - int(e[YEAR]) ELSE 0 - MissingYear

\* e put into the sorted list after every element whose key is not larger
RECURSIVE InsertByKey(_, _)
InsertByKey(sorted, e) ==
    IF sorted = <<>> THEN <<e>>
    ELSE IF article_sort_key(Head(sorted)) <= article_sort_key(e)
         THEN <<Head(sorted)>> \o InsertByKey(Tail(sorted), e)
         ELSE <<e>> \o sorted

\* list.sort(key=article_sort_key): ascending in the key, equal keys keep their order
RECURSIVE SortFrom(_, _)
SortFrom(rest, sorted) ==
    IF rest = <<>> THEN sorted ELSE SortFrom(Tail(rest), InsertByKey(sorted, Head(rest)))

Sort(as) == SortFrom(as, <<>>)

KEYWORD_TO_CATEGORY ==
    [kw \in {KW_METHODOLOGY, KW_AID_DEV, KW_AFRICAN_POLITICS, KW_OTHER} |->
        CASE kw = KW_METHODOLOGY -> "methodology"
          [] kw = KW_AID_DEV -> "aid_development"
          [] kw = KW_AFRICAN_POLITICS -> "african_politics"
          [] kw = KW_OTHER -> "other"]

categorize_article(e) ==
    LET kw == Lower(Strip(DictGet(e, KEYWORDS, <<>>)))
    IN  IF kw \in DOMAIN KEYWORD_TO_CATEGORY THEN KEYWORD_TO_CATEGORY[kw]
        ELSE "aid_development"

\* [a for a in articles if categorize_article(a) == c]
InCategory(as, c) == SelectSeq(as, LAMBDA a : categorize_article(a) = c)

\* the year_display of format_article_md
year_display(e) ==
    IF DictGet(e, STATUS, <<>>) = ACCEPTED
    THEN <<"(">> \o ACCEPTED \o <<")">>
    ELSE <<"(">> \o DictGet(e, YEAR, <<>>) \o <<")">>

\* the article lines of one section, in the order of its list
SectionLines(c, as) ==
    [n \in 1..Len(as) |-> [section |-> c, year_display |-> year_display(as[n]), entry |-> as[n]]]

\* a record as parse_bib returns it
Record(type, key, fs) == DictPut(DictPut(fs, TYPE_KEY, type), KEY_KEY, key)

Field(name, value) == DictPut(EmptyDict, name, value)

MainEntries ==
    {Record(ARTICLE, <<"k", "1">>,
            DictPut(Field(YEAR, <<"2", "0", "2", "1">>), KEYWORDS, KW_METHODOLOGY)),
     Record(ARTICLE, <<"k", "2">>,
            DictPut(DictPut(Field(YEAR, <<"2", "0", "1", "9">>), STATUS, ACCEPTED),
                    KEYWORDS, KW_METHODOLOGY)),
     Record(ARTICLE, <<"k", "3">>, DictPut(Field(STATUS, ACCEPTED), KEYWORDS, KW_AID_DEV)),
     Record(ARTICLE, <<"k", "4">>, Field(YEAR, <<"2", "0", "1", "9">>)),
     Record(ARTICLE, <<"k", "5">>,
            DictPut(Field(YEAR, <<"2", "0", "2", "1">>), KEYWORDS, <<"O", "t", "h", "e", "r">>)),
     Record(ARTICLE, <<"k", "6">>,
            DictPut(Field(YEAR, <<>>), KEYWORDS, KW_AFRICAN_POLITICS)),
     Record(INCOLLECTION, <<"k", "7">>, Field(YEAR, <<"2", "0", "2", "0">>)),
     Record(ARTICLE, <<"k", "8">>, Field(YEAR, <<"n", ".", "d", ".">>)),
     Record(ARTICLE, <<"k", "9">>,
            DictPut(DictPut(Field(YEAR, <<"2", "0", "2", "0">>), STATUS, WIP),
                    KEYWORDS, KW_OTHER))}

\* main after entries = parse_bib(str(pub_bib))
InitMain ==
    /\ impl = "research"
    /\ path = "publications.bib" /\ bib = <<>> /\ text = <<>>
    /\ i = 0 /\ spans = <<>> /\ cur = <<>> /\ caller = "main"
    /\ entries \in SeqsUpTo(MainEntries, MaxArticles)
    /\ pc = "separate"
    /\ IdleFields /\ IdleCalls /\ IdleMain
    /\ result = NoResult
    /\ err = NoErr

\* articles = [e for e in entries if e["_type"] == "article"]
MainSeparate ==
    /\ pc = "separate"
    /\ articles' = SelectSeq(entries, LAMBDA e : e[TYPE_KEY] = ARTICLE)
    /\ pc' = "sort"
    /\ UNCHANGED <<parseVars, fieldVars, sections, lines, arg, outs, result, err>>

\* articles.sort(key=article_sort_key)
MainSort ==
    /\ pc = "sort"
    /\ \A n \in 1..Len(articles) : SortKeyOk(articles[n])
    /\ articles' = Sort(articles)
    /\ pc' = "categorize"
    /\ UNCHANGED <<parseVars, fieldVars, sections, lines, arg, outs, result, err>>

\* int() of a year that is no number raises ValueError out of main
MainSortRaise ==
    /\ pc = "sort"
    /\ \E n \in 1..Len(articles) :
          /\ ~SortKeyOk(articles[n])
          /\ \A m \in 1..(n - 1) : SortKeyOk(articles[m])
          /\ err' = <<"invalid literal for int()", articles[n][YEAR]>>
    /\ pc' = "raised"
    /\ UNCHANGED <<parseVars, fieldVars, mainVars, arg, outs, result>>

\* the four lists of the sections
MainCategorize ==
    /\ pc = "categorize"
    /\ sections' = [methodology |-> InCategory(articles, "methodology"),
                    aid_dev |-> InCategory(articles, "aid_development"),
                    african_pol |-> InCategory(articles, "african_politics"),
                    other_articles |-> InCategory(articles, "other")]
    /\ pc' = "render"
    /\ UNCHANGED <<parseVars, fieldVars, articles, lines, arg, outs, result, err>>

\* the sections are written in their fixed order, each list front to back
MainRender ==
    /\ pc = "render"
    /\ lines' = SectionLines("methodology", sections.methodology)
                    \o SectionLines("aid_development", sections.aid_dev)
                    \o SectionLines("african_politics", sections.african_pol)
                    \o SectionLines("other", sections.other_articles)
    /\ result' = lines'
    /\ pc' = "done"
    /\ UNCHANGED <<parseVars, fieldVars, articles, sections, arg, outs, err>>

NextMain == MainSeparate \/ MainSort \/ MainSortRaise \/ MainCategorize \/ MainRender

SpecMain == InitMain /\ [][NextMain]_vars

\* article a has status accepted
Accepted(a) == DictGet(a, STATUS, <<>>) = ACCEPTED

\* every accepted article is before every article that is not accepted
AcceptedFirst ==
    \A m, n \in 1..Len(articles) : Accepted(articles[m]) /\ ~Accepted(articles[n]) => m < n

\* the articles that are not accepted and have a year are in non-increasing order of year
YearsDescending ==
    \A m, n \in 1..Len(articles) :
        /\ m < n
        /\ ~Accepted(articles[m]) /\ ~Accepted(articles[n])
        /\ HasYear(articles[m]) /\ HasYear(articles[n])
        => int(articles[m][YEAR]) >= int(articles[n][YEAR])

\* the lines of section c show its articles in the order they have in articles
SectionKeepsOrder(c) ==
    LET shown == SelectSeq(lines, LAMBDA l : l.section = c)
        mine == SelectSeq(articles, LAMBDA a : categorize_article(a) = c)
    IN  /\ Len(shown) = Len(mine)
        /\ \A n \in 1..Len(mine) : shown[n].entry = mine[n]

OrderKeptInSections ==
    pc = "done" =>
        \A c \in {"methodology", "aid_development", "african_politics", "other"} :
            SectionKeepsOrder(c)

\* C13: after the sort every accepted article is before every article that is not
\* accepted, the others are in non-increasing order of year, and every section of
\* the output keeps this order
Cex_C13_AcceptedFirst ==
    pc \in {"categorize", "render", "done"} =>
        AcceptedFirst /\ YearsDescending /\ OrderKeptInSections

====
